---- MODULE Spec2Model ----
(***************************************************************************)
(* Model of jules-scratch/verification/verify_edit_expense.py:             *)
(* run_verification drives one headless browser through the edit-expense   *)
(* flow of a dashboard, writes four screenshots and closes the browser in   *)
(* a finally block.  One action per statement of the script; the dashboard  *)
(* and the host (driver, browser binary, filesystem) are the environment,   *)
(* drawn in Init.                                                           *)
(***************************************************************************)
EXTENDS Integers, Sequences, FiniteSets, TLC

VARIABLES pc, exc, failedAt, outcome, acquired, released, closeCalls,
          browserOpen, pageOpen, polls, log, files, writes, prior, dash, infra

vars == <<pc, exc, failedAt, outcome, acquired, released, closeCalls,
          browserOpen, pageOpen, polls, log, files, writes, prior, dash, infra>>

\* Number of re-checks a visibility assertion makes before its timeout
\* elapses (the wait window, in polling intervals).
ExpectPolls == 2

\* ------------------------------------------------------------------ script

\* The statements of run_verification, in program order.
Script == << "sync_playwright", "launch", "new_page",
             "goto", "screenshot_dashboard",
             "click_edit", "expect_edit_expense", "screenshot_edit",
             "click_update", "expect_no_changes", "screenshot_no_changes",
             "go_back", "expect_discard", "screenshot_discard",
             "close", "stop" >>

\* The statements inside the try block (lines 10..40).
TryBody == << "goto", "screenshot_dashboard",
              "click_edit", "expect_edit_expense", "screenshot_edit",
              "click_update", "expect_no_changes", "screenshot_no_changes",
              "go_back", "expect_discard", "screenshot_discard" >>

Steps == {Script[i] : i \in 1..Len(Script)}
BodySteps == {TryBody[i] : i \in 1..Len(TryBody)}
Shots == {"screenshot_dashboard", "screenshot_edit",
          "screenshot_no_changes", "screenshot_discard"}
Expects == {"expect_edit_expense", "expect_no_changes", "expect_discard"}

Texts == {"Edit Expense", "No Changes", "Discard changes?"}
Paths == {"dashboard-page.png", "edit-expense-page.png",
          "no-changes-alert.png", "discard-changes-alert.png"}

Index(s) == CHOOSE i \in 1..Len(Script) : Script[i] = s

\* The text each visibility assertion waits for (lines 18, 28, 37).
TextOf(s) ==
  CASE s = "expect_edit_expense" -> "Edit Expense"
    [] s = "expect_no_changes"   -> "No Changes"
    [] s = "expect_discard"      -> "Discard changes?"

PathOfSwapped(s) ==
  CASE s = "screenshot_dashboard"  -> "dashboard-page.png"
    [] s = "screenshot_edit"       -> "dashboard-page.png"
    [] s = "screenshot_no_changes" -> "no-changes-alert.png"
    [] s = "screenshot_discard"    -> "discard-changes-alert.png"

\* The file each screenshot statement writes (lines 11, 21, 31, 40).
PathOf(s) ==
  CASE s = "screenshot_dashboard"  -> "dashboard-page.png"
    [] s = "screenshot_edit"       -> "edit-expense-page.png"
    [] s = "screenshot_no_changes" -> "no-changes-alert.png"
    [] s = "screenshot_discard"    -> "discard-changes-alert.png"

SuccShotBeforeAssert(s) ==
  CASE s = "click_edit"          -> "screenshot_edit"
    [] s = "screenshot_edit"     -> "expect_edit_expense"
    [] s = "expect_edit_expense" -> "click_update"
    [] s = "stop"                -> "done"
    [] OTHER                     -> Script[Index(s) + 1]

SuccCloseEarly(s) ==
  IF s = "expect_discard" THEN "close"
  ELSE IF s = "close" /\ closeCalls = 0 THEN "screenshot_discard"
  ELSE IF s = "stop" THEN "done" ELSE Script[Index(s) + 1]

\* Where control goes when statement s completes normally: the next
\* statement; leaving the with block ends the run.
Succ(s) == IF s = "stop" THEN "done" ELSE Script[Index(s) + 1]

HandlerNoFinally(s) ==
  IF s = "sync_playwright" THEN "done" ELSE "stop"

HandlerSwallow(s) ==
  IF s = "sync_playwright" THEN "done"
  ELSE IF s \in {"launch", "new_page"} THEN "stop"
  ELSE IF s \in Shots THEN Script[Index(s) + 1] ELSE "close"

\* Where control goes when statement s raises: a failure entering the with
\* block ends the run; launch and new_page (lines 5, 6) are outside the try,
\* so only the with block's exit runs; a statement of the try body runs the
\* finally block (line 43) first.
Handler(s) ==
  IF s = "sync_playwright" THEN "done"
  ELSE IF s \in {"launch", "new_page"} THEN "stop"
  ELSE "close"

\* The exit status of the entry point (lines 45, 46): zero when
\* run_verification returns, non-zero when an exception leaves it unhandled.
ExitStatus(e) == IF e = "none" THEN "success" ELSE "failure"

AfterFinallySwallow(e) == "none"

\* The exception pending after the finally block (lines 42, 43): the block
\* has no return and no except clause, so whatever was raised is re-raised.
AfterFinally(e) == e

\* ------------------------------------------------------------- environment

Delays == 0..(ExpectPolls + 1)

\* What the dashboard does: whether page.goto reaches it, whether it renders
\* an "Edit" and an "Update Expense" button, whether back-navigation
\* completes, and after how many polling intervals each awaited text becomes
\* visible (ExpectPolls + 1: not within the wait window).
Dashboards ==
  [reachable : BOOLEAN, hasEdit : BOOLEAN, hasUpdate : BOOLEAN,
   backOk : BOOLEAN, delay : [Texts -> Delays]]

\* The statement, if any, at which the host fails: the driver does not
\* start, the browser does not launch, the page does not open or a
\* screenshot cannot be written.
InfraFaults == {"none", "sync_playwright", "launch", "new_page"} \cup Shots

\* A file before the run: absent, or left by an earlier run.
PriorContents == {"absent", "old"}

Kinds == {"none", "driver", "launch", "page", "navigation", "element",
          "assertion", "filesystem"}

Init ==
  /\ pc = "sync_playwright"
  /\ exc = "none"
  /\ failedAt = "none"
  /\ outcome = "running"
  /\ acquired = 0
  /\ released = 0
  /\ closeCalls = 0
  /\ browserOpen = FALSE
  /\ pageOpen = FALSE
  /\ polls = 0
  /\ log = << >>
  /\ prior \in PriorContents
  /\ files = [p \in Paths |-> prior]
  /\ writes = [p \in Paths |-> 0]
  /\ dash \in Dashboards
  /\ infra \in InfraFaults

\* ----------------------------------------------------------------- actions

\* Statement s completes, normally (ok) or by raising an exception of the
\* given kind, after n re-checks; e is the exception pending before it.
Complete(s, ok, kind, n, e) ==
  /\ log' = Append(log, [op |-> s, ok |-> ok, n |-> n])
  /\ pc' = IF ok THEN Succ(s) ELSE Handler(s)
  /\ exc' = IF ok THEN e ELSE kind
  /\ failedAt' = IF ok THEN failedAt ELSE s
  /\ outcome' = IF pc' = "done" THEN ExitStatus(exc') ELSE outcome

\* line 4: with sync_playwright() as p
EnterPlaywright ==
  /\ pc = "sync_playwright"
  /\ Complete("sync_playwright", infra # "sync_playwright", "driver", 0, exc)
  /\ UNCHANGED <<acquired, released, closeCalls, browserOpen, pageOpen, polls,
                 files, writes, prior, dash, infra>>

\* line 5: browser = p.chromium.launch(headless=True)
Launch ==
  /\ pc = "launch"
  /\ LET ok == infra # "launch" IN
       /\ Complete("launch", ok, "launch", 0, exc)
       /\ acquired' = IF ok THEN acquired + 1 ELSE acquired
       /\ browserOpen' = (ok \/ browserOpen)
  /\ UNCHANGED <<released, closeCalls, pageOpen, polls, files, writes, prior,
                 dash, infra>>

\* line 6: page = browser.new_page()
NewPage ==
  /\ pc = "new_page"
  /\ LET ok == infra # "new_page" IN
       /\ Complete("new_page", ok, "page", 0, exc)
       /\ pageOpen' = (ok \/ pageOpen)
  /\ UNCHANGED <<acquired, released, closeCalls, browserOpen, polls, files,
                 writes, prior, dash, infra>>

\* line 10: page.goto("http://localhost:8081")
Goto ==
  /\ pc = "goto"
  /\ Complete("goto", dash.reachable, "navigation", 0, exc)
  /\ UNCHANGED <<acquired, released, closeCalls, browserOpen, pageOpen, polls,
                 files, writes, prior, dash, infra>>

\* lines 11, 21, 31, 40: page.screenshot(path=...).  A successful call
\* replaces the file; a failed one leaves it as it was or partly written.
Screenshot(s) ==
  /\ pc = s
  /\ LET ok == infra # s
         p == PathOf(s) IN
       /\ Complete(s, ok, "filesystem", 0, exc)
       /\ IF ok
            THEN /\ files' = [files EXCEPT ![p] = "new"]
                 /\ writes' = [writes EXCEPT ![p] = @ + 1]
            ELSE /\ \E c \in {files[p], "partial"} :
                      files' = [files EXCEPT ![p] = c]
                 /\ writes' = writes
  /\ UNCHANGED <<acquired, released, closeCalls, browserOpen, pageOpen, polls,
                 prior, dash, infra>>

ClickEditUnchecked ==
  /\ pc = "click_edit"
  /\ Complete("click_edit", TRUE, "element", 0, exc)
  /\ UNCHANGED <<acquired, released, closeCalls, browserOpen, pageOpen, polls,
                 files, writes, prior, dash, infra>>

\* lines 14, 15: page.get_by_role("button", name="Edit").first.click()
ClickEdit ==
  /\ pc = "click_edit"
  /\ Complete("click_edit", dash.hasEdit, "element", 0, exc)
  /\ UNCHANGED <<acquired, released, closeCalls, browserOpen, pageOpen, polls,
                 files, writes, prior, dash, infra>>

\* lines 24, 25: page.get_by_role("button", name="Update Expense").click()
ClickUpdate ==
  /\ pc = "click_update"
  /\ Complete("click_update", dash.hasUpdate, "element", 0, exc)
  /\ UNCHANGED <<acquired, released, closeCalls, browserOpen, pageOpen, polls,
                 files, writes, prior, dash, infra>>

IsVisibleNever(t, n) == FALSE

\* Whether text t is visible at the n-th re-check after the wait began.
IsVisible(t, n) == n >= dash.delay[t]

TimedOutOnFirstMiss(n) == TRUE

\* Whether the wait window has elapsed at the n-th re-check.
TimedOut(n) == n >= ExpectPolls

ExpectNoTimeout(s) ==
  /\ pc = s
  /\ LET t == TextOf(s) IN
       IF IsVisible(t, polls)
         THEN /\ Complete(s, TRUE, "assertion", polls, exc)
              /\ polls' = 0
         ELSE UNCHANGED <<pc, exc, failedAt, outcome, log, polls>>
  /\ UNCHANGED <<acquired, released, closeCalls, browserOpen, pageOpen,
                 files, writes, prior, dash, infra>>

\* lines 18, 28, 37: expect(page.get_by_text(t)).to_be_visible() checks the
\* page, and re-checks it an interval later until the text is visible or
\* the wait window has elapsed.
Expect(s) ==
  /\ pc = s
  /\ LET t == TextOf(s) IN
       IF IsVisible(t, polls)
         THEN /\ Complete(s, TRUE, "assertion", polls, exc)
              /\ polls' = 0
         ELSE IF TimedOut(polls)
           THEN /\ Complete(s, FALSE, "assertion", polls, exc)
                /\ polls' = 0
           ELSE /\ polls' = polls + 1
                /\ UNCHANGED <<pc, exc, failedAt, outcome, log>>
  /\ UNCHANGED <<acquired, released, closeCalls, browserOpen, pageOpen,
                 files, writes, prior, dash, infra>>

\* line 34: page.go_back()
GoBack ==
  /\ pc = "go_back"
  /\ Complete("go_back", dash.backOk, "navigation", 0, exc)
  /\ UNCHANGED <<acquired, released, closeCalls, browserOpen, pageOpen, polls,
                 files, writes, prior, dash, infra>>

\* lines 42, 43: finally: browser.close()
Close ==
  /\ pc = "close"
  /\ Complete("close", TRUE, "none", 0, AfterFinally(exc))
  /\ closeCalls' = closeCalls + 1
  /\ released' = IF browserOpen THEN released + 1 ELSE released
  /\ browserOpen' = FALSE
  /\ pageOpen' = FALSE
  /\ UNCHANGED <<acquired, polls, files, writes, prior, dash, infra>>

\* line 4, leaving the with block: the driver is stopped, which ends any
\* browser it still runs; a pending exception propagates to the caller.
StopPlaywright ==
  /\ pc = "stop"
  /\ Complete("stop", TRUE, "none", 0, exc)
  /\ released' = IF browserOpen THEN released + 1 ELSE released
  /\ browserOpen' = FALSE
  /\ pageOpen' = FALSE
  /\ UNCHANGED <<acquired, closeCalls, polls, files, writes, prior, dash,
                 infra>>

Next ==
  \/ EnterPlaywright
  \/ Launch
  \/ NewPage
  \/ Goto
  \/ \E s \in Shots : Screenshot(s)
  \/ ClickEdit
  \/ ClickUpdate
  \/ \E s \in Expects : Expect(s)
  \/ GoBack
  \/ Close
  \/ StopPlaywright

Spec == Init /\ [][Next]_vars

\* The script is one thread and every statement returns or raises within
\* its timeout, so a statement that can run does run.
FairSpec == Spec /\ WF_vars(Next)

\* ------------------------------------------------------ reading the history

Logged(s) == \E i \in DOMAIN log : log[i].op = s
Passed(s) == \E i \in DOMAIN log : log[i].op = s /\ log[i].ok
Failed(s) == \E i \in DOMAIN log : log[i].op = s /\ ~log[i].ok
Count(s) == Cardinality({i \in DOMAIN log : log[i].op = s})
Before(s, k) == Index(s) < Index(k)
Ending == {"close", "stop", "done"}

\* The screenshot statement that is the checkpoint of each file.
Checkpoint(p) ==
  CASE p = "dashboard-page.png"        -> "screenshot_dashboard"
    [] p = "edit-expense-page.png"     -> "screenshot_edit"
    [] p = "no-changes-alert.png"      -> "screenshot_no_changes"
    [] p = "discard-changes-alert.png" -> "screenshot_discard"

\* The dashboard honours the UI contract the script assumes.
Honours ==
  /\ dash.reachable
  /\ dash.hasEdit
  /\ dash.hasUpdate
  /\ dash.backOk
  /\ \A t \in Texts : dash.delay[t] <= ExpectPolls

\* The run completed every step: assertions passed in order, four
\* screenshots written, browser released, exit status zero.
Completed ==
  /\ pc = "done"
  /\ outcome = "success"
  /\ \A s \in Steps : Passed(s)
  /\ \A i \in DOMAIN log : log[i].op = Script[i]
  /\ \A p \in Paths : files[p] = "new" /\ writes[p] = 1
  /\ acquired = 1
  /\ released = 1
  /\ closeCalls = 1
  /\ ~browserOpen

TypeOK ==
  /\ pc \in Steps \cup {"done"}
  /\ exc \in Kinds
  /\ failedAt \in Steps \cup {"none"}
  /\ outcome \in {"running", "success", "failure"}
  /\ acquired \in 0..1
  /\ released \in 0..1
  /\ closeCalls \in 0..1
  /\ browserOpen \in BOOLEAN
  /\ pageOpen \in BOOLEAN
  /\ polls \in 0..ExpectPolls
  /\ files \in [Paths -> {"absent", "old", "new", "partial"}]
  /\ writes \in [Paths -> 0..1]

\* ------------------------------------------------------------------ claims

\* C1 as stated: every run, whatever its outcome (a failure of the browser
\* launch or of the page open included), acquires exactly one browser and
\* calls browser.close() on it exactly once by the time it ends.
C1_Original ==
  pc = "done" => acquired = 1 /\ closeCalls = 1 /\ released = 1

\* C1 amended: a run acquires at most one browser, exactly one when the
\* launch succeeds, and every acquired browser is released exactly once by
\* the time the run ends; browser.close() runs exactly once in every run
\* that opened the page, and not at all otherwise.
C1_Amended ==
  /\ acquired <= 1
  /\ released <= acquired
  /\ closeCalls <= 1
  /\ pc = "done" =>
       /\ released = acquired
       /\ ~browserOpen
       /\ acquired = 1 <=> Passed("launch")
       /\ closeCalls = 1 <=> Passed("new_page")

C1_Witness ==
  /\ pc = "done"
  /\ failedAt = "expect_no_changes"
  /\ acquired = 1
  /\ released = 1
  /\ closeCalls = 1

\* C2: the run completes every step or aborts at the first failing step k of
\* the try body: the steps before k passed, k ran once, no step after k
\* runs, the browser is closed; a failed page.goto leaves no screenshot.
C2_AbortAtFirstFailure ==
  /\ \A k \in BodySteps : failedAt = k =>
       /\ pc \in Ending
       /\ exc # "none"
       /\ Count(k) = 1
       /\ Failed(k)
       /\ \A s \in Steps : Before(s, k) => Passed(s) /\ Count(s) = 1
       /\ \A s \in BodySteps : Before(k, s) => ~Logged(s)
       /\ pc = "done" =>
            closeCalls = 1 /\ released = 1 /\ ~browserOpen
                           /\ outcome = "failure"
  /\ failedAt = "goto" =>
       \A p \in Paths : writes[p] = 0 /\ files[p] = prior
  /\ (pc = "done" /\ failedAt = "none") => \A s \in Steps : Passed(s)

C2_Witness ==
  /\ pc = "done"
  /\ failedAt = "goto"
  /\ closeCalls = 1
  /\ \A p \in Paths : writes[p] = 0

\* C3: with no "Edit" button on the initial page the run fails at the Edit
\* click with an element error, after the dashboard screenshot was written;
\* the "Edit Expense" assertion and the later steps never run and the
\* browser is released.
C3_NoEditButton ==
  ~dash.hasEdit =>
    /\ \A s \in BodySteps : Before("click_edit", s) => ~Logged(s)
    /\ Logged("click_edit") =>
         /\ failedAt = "click_edit"
         /\ exc = "element"
         /\ pc \in Ending
         /\ Passed("screenshot_dashboard")
         /\ files["dashboard-page.png"] = "new"
         /\ pc = "done" =>
              closeCalls = 1 /\ released = 1 /\ ~browserOpen
                             /\ outcome = "failure"

C3_Witness ==
  /\ ~dash.hasEdit
  /\ pc = "done"
  /\ failedAt = "click_edit"
  /\ files["dashboard-page.png"] = "new"
  /\ closeCalls = 1

\* C4: the steps run one at a time in the script's order, each after the one
\* before it completed, so each later screenshot file is touched only after
\* the assertion that precedes it succeeded.
C4_Sequential ==
  /\ \A i, j \in DOMAIN log : i < j => Before(log[i].op, log[j].op)
  /\ \A i \in DOMAIN log : log[i].op \in BodySteps =>
       /\ log[i].op = Script[i]
       /\ \A j \in 1..(i - 1) : log[j].ok
  /\ pc \in BodySteps =>
       \A s \in Steps : Before(s, pc) => Passed(s)
  /\ files["edit-expense-page.png"] # prior => Passed("expect_edit_expense")
  /\ files["no-changes-alert.png"] # prior => Passed("expect_no_changes")
  /\ files["discard-changes-alert.png"] # prior => Passed("expect_discard")
  /\ Logged("screenshot_edit") => Passed("expect_edit_expense")
  /\ Logged("screenshot_no_changes") => Passed("expect_no_changes")
  /\ Logged("screenshot_discard") => Passed("expect_discard")

C4_Witness ==
  /\ files["edit-expense-page.png"] = "new"
  /\ files["no-changes-alert.png"] = "new"
  /\ Failed("expect_discard")
  /\ files["discard-changes-alert.png"] = prior
  /\ pc = "done"

\* C5: the exit status is zero exactly when every step completed; a failure
\* stays pending through the finally block and gives a non-zero status.
C5_ExitStatus ==
  /\ (failedAt # "none") <=> (exc # "none")
  /\ pc = "done" =>
       /\ outcome \in {"success", "failure"}
       /\ outcome = "success" <=> \A s \in BodySteps : Passed(s)
       /\ outcome = "failure" <=> \E s \in Steps : Failed(s)
  /\ pc # "done" => outcome = "running"

C5_Witness ==
  /\ pc = "done"
  /\ outcome = "failure"
  /\ exc = "filesystem"
  /\ closeCalls = 1

\* C6: a visibility assertion re-checks the page until the text is visible
\* or the wait window has elapsed: it passes exactly when the text becomes
\* visible within the window, at the re-check where it does, and otherwise
\* fails with an assertion error at the end of the window, never later.
C6_BoundedPolling ==
  /\ polls <= ExpectPolls
  /\ pc \in Expects => polls <= dash.delay[TextOf(pc)]
  /\ \A i \in DOMAIN log : log[i].op \in Expects =>
       LET d == dash.delay[TextOf(log[i].op)] IN
         /\ log[i].ok <=> d <= ExpectPolls
         /\ log[i].ok => log[i].n = d
         /\ ~log[i].ok =>
              /\ log[i].n = ExpectPolls
              /\ failedAt = log[i].op
              /\ exc = "assertion"

C6_Witness ==
  /\ \E i \in DOMAIN log :
       log[i].op = "expect_edit_expense" /\ log[i].ok /\ log[i].n >= 1
  /\ \E i \in DOMAIN log :
       log[i].op = "expect_no_changes" /\ ~log[i].ok
            /\ log[i].n = ExpectPolls

\* C7 as stated: with a dashboard that honours the UI contract the run
\* completes all steps with all four screenshots written and exit status
\* zero.
C7_Original ==
  (pc = "done" /\ Honours) => Completed

\* C7 amended: with a dashboard that honours the UI contract, and a host on
\* which the driver starts, the browser launches, the page opens and the
\* screenshots can be written, the run eventually completes all steps.
C7_Amended ==
  (Honours /\ infra = "none") ~> Completed

C7_Witness ==
  /\ Honours
  /\ infra = "none"
  /\ dash.delay["No Changes"] = ExpectPolls
  /\ Completed

\* C8: the run touches only the four screenshot files, each at most once: a
\* checkpoint that was passed has its file newly written, a checkpoint not
\* reached leaves its file as it was before the run, and nothing written is
\* removed when the run aborts.
C8_ScreenshotFrame ==
  /\ DOMAIN files = Paths
  /\ \A p \in Paths :
       /\ writes[p] <= 1
       /\ Passed(Checkpoint(p)) => files[p] = "new" /\ writes[p] = 1
       /\ ~Logged(Checkpoint(p)) => files[p] = prior /\ writes[p] = 0
       /\ Failed(Checkpoint(p)) =>
            files[p] \in {prior, "partial"} /\ writes[p] = 0
  /\ (pc = "done" /\ outcome = "success") =>
       \A p \in Paths : files[p] = "new" /\ writes[p] = 1

C8_Witness ==
  /\ pc = "done"
  /\ failedAt = "expect_no_changes"
  /\ prior = "old"
  /\ files["dashboard-page.png"] = "new"
  /\ files["edit-expense-page.png"] = "new"
  /\ files["no-changes-alert.png"] = "old"
  /\ files["discard-changes-alert.png"] = "old"

\* C9: every run ends, whatever the dashboard does, in a final state, which
\* it never leaves, with no browser left open.
C9_Terminates ==
  <>[](pc = "done" /\ ~browserOpen /\ released = acquired)

C9_Witness ==
  /\ pc = "done"
  /\ failedAt = "expect_discard"
  /\ exc = "assertion"
  /\ ~browserOpen
  /\ released = acquired

\* C10: every page action happens after the browser was launched and the
\* page opened and before browser.close(), which is the last browser action
\* of the run.
C10_UseWithinLifetime ==
  /\ \A i \in DOMAIN log : log[i].op \in BodySteps =>
       /\ \E j \in 1..(i - 1) : log[j].op = "launch" /\ log[j].ok
       /\ \E j \in 1..(i - 1) : log[j].op = "new_page" /\ log[j].ok
       /\ \A j \in 1..(i - 1) : log[j].op # "close"
  /\ \A i \in DOMAIN log : log[i].op = "close" =>
       /\ \E j \in 1..(i - 1) : log[j].op = "launch" /\ log[j].ok
       /\ \A j \in DOMAIN log : j > i => log[j].op = "stop"
  /\ pc \in BodySteps => browserOpen /\ pageOpen
  /\ Count("close") <= 1

C10_Witness ==
  /\ pc = "done"
  /\ outcome = "success"
  /\ Len(log) = Len(Script)
  /\ log[Len(log) - 1].op = "close"

====
